---- MODULE Spec2Model ----
(***************************************************************************)
(* Model of day-8 of advent2020: the bytecode emulator (Emulator::execute), *)
(* the baseline loop detector in main and the repair search run_program.    *)
(* Program counters are 0-based as in the source; TLA+ sequences are        *)
(* 1-based, so instruction i of the source is instructions[i + 1].          *)
(***************************************************************************)
EXTENDS Integers, Sequences, FiniteSets, TLC

VARIABLES
    instructions,     \* main: Vec<Instruction>, read-only after load
    overflow_checks,  \* build profile: TRUE = overflow panics, FALSE = wraps
    phase,            \* position of the driver
    e,                \* main: `e`, the baseline emulator
    seen,             \* main: `seen`, the baseline visited set
    stack,            \* call stack of run_program invocations, top = last
    ret,              \* value returned by the invocation that just returned
    result,           \* value of run_program(..) matched in main
    panic,            \* "none", or the kind of panic that aborted the process
    report,           \* what the baseline println reports
    baseline_trace,   \* history: pcs offered to seen.insert, in order
    last_exec,        \* history: the latest call of Emulator::execute
    initial_budget,   \* history: budget of the top-level run_program call
    terminated_path,  \* history: path of the invocation that returned Terminated
    tried,            \* history: the speculative invocations started, in order
    baseline_states,  \* history: emulator states offered to seen.insert
    first_run,        \* history: what an earlier run of main left, if any
    input,            \* main: the lines read by get_input (or from_str's argument)
    loaded,           \* main: results of from_str on the lines decoded so far
    permutations,     \* day-1: the Permutations iterator
    collected,        \* day-1 history: what next() returned, in order
    sum_call,         \* day-1: arguments of get_sum_to / get_sum_tree
    sum_ret,          \* day-1: what get_sum_to and get_sum_tree returned
    mutation,         \* try_mutate called on an instruction, and on its result
    cipher,           \* day-9: the CipherWindow of find_invalid_number
    last_insert       \* day-9 history: the latest call of CipherWindow::insert

vars == <<instructions, overflow_checks, phase, e, seen, stack, ret, result,
          panic, report, baseline_trace, last_exec, initial_budget,
          terminated_path, tried, baseline_states, first_run, input, loaded,
          permutations, collected, sum_call, sum_ret, mutation, cipher,
          last_insert>>

----------------------------------------------------------------------------
(* Bounds of the model *)

\* longest generated program
MaxLen == 3
\* instruction arguments are drawn from -MaxArg .. MaxArg
MaxArg == 2
\* width in bits of the scaled-down i64 / usize (64 in the source)
WordBits == 8
\* ranges of the emulator states handed to execute when it is checked alone
MaxPc == 4
MaxAcc == 3
\* largest budget handed to run_program when it is called directly
MaxBudget == 1

Args == (-MaxArg)..MaxArg

----------------------------------------------------------------------------
(* Machine integers *)

Modulus == 2^WordBits
I64Min == -(2^(WordBits - 1))
I64Max == 2^(WordBits - 1) - 1
UsizeMax == 2^WordBits - 1

WrapI64(x) == ((x - I64Min) % Modulus) + I64Min
WrapUsize(x) == x % Modulus
\* `self.pc as i64`: reinterpretation of the bits, never panics
AsI64(u) == IF u > I64Max THEN u - Modulus ELSE u
\* `new_pc as usize` of a value already known to be >= 0
AsUsize(i) == IF i < 0 THEN i + Modulus ELSE i

InI64(x) == I64Min <= x /\ x <= I64Max
InUsize(x) == 0 <= x /\ x <= UsizeMax

----------------------------------------------------------------------------
(* Instruction *)

NoOperation(v) == [op |-> "NoOperation", arg |-> v]
Accumulate(v) == [op |-> "Accumulate", arg |-> v]
Jump(v) == [op |-> "Jump", arg |-> v]

Instruction == {NoOperation(v) : v \in Args} \cup {Accumulate(v) : v \in Args}
                 \cup {Jump(v) : v \in Args}

None == [some |-> FALSE]
Some(x) == [some |-> TRUE, value |-> x]

\* variant: only a NoOperation has a partner
try_mutate_nop_only(self) ==
    IF self.op = "NoOperation" THEN Some(Jump(self.arg)) ELSE None

\* variant: the partner is built with argument 0
try_mutate_drops_arg(self) ==
    CASE self.op = "NoOperation" -> Some(Jump(0))
      [] self.op = "Accumulate" -> None
      [] self.op = "Jump" -> Some(NoOperation(0))

try_mutate(self) ==
    CASE self.op = "NoOperation" -> Some(Jump(self.arg))
      [] self.op = "Accumulate" -> None
      [] self.op = "Jump" -> Some(NoOperation(self.arg))

\* variant: the last index is treated as past the end
InBounds_off_by_one(instrs, pc) == pc + 1 < Len(instrs)

\* instructions.get(pc) / instructions[pc]
InBounds(instrs, pc) == pc < Len(instrs)
Get(instrs, pc) == instrs[pc + 1]

----------------------------------------------------------------------------
(* Emulator *)

EmulatorNew == [accumulator |-> 0, pc |-> 0]

Ok(em) == [emulator |-> em, panic |-> "none"]
Panicked(em, kind) == [emulator |-> em, panic |-> kind]

\* variant: `=` written for `+=`
executeAccumulate_assign(em, value) ==
    Ok([em EXCEPT !.accumulator = value])

\* self.accumulator += value
executeAccumulate(em, value) ==
    LET sum == em.accumulator + value IN
    IF ~InI64(sum) /\ overflow_checks
      THEN Panicked(em, "overflow")
      ELSE Ok([em EXCEPT !.accumulator = WrapI64(sum)])

\* variant: a negative target is clamped to pc 0 instead of panicking
executeJump_clamped(em, rel) ==
    LET new_pc == AsI64(em.pc) + rel - 1 IN
    IF new_pc < 0 THEN Ok([em EXCEPT !.pc = 0])
                  ELSE Ok([em EXCEPT !.pc = new_pc])

\* variant: the `- 1` that compensates the trailing `self.pc += 1` is left out
executeJump_no_compensation(em, rel) ==
    LET new_pc == AsI64(em.pc) + rel IN
    IF new_pc < 0 THEN Panicked(em, "pc_underflow")
                  ELSE Ok([em EXCEPT !.pc = new_pc])

\* let new_pc = self.pc as i64 + rel - 1; panic if new_pc < 0;
\* self.pc = new_pc as usize
executeJump(em, rel) ==
    LET t1 == AsI64(em.pc) + rel
        t2 == WrapI64(t1) - 1
        new_pc == WrapI64(t2)
    IN  IF (~InI64(t1) \/ ~InI64(t2)) /\ overflow_checks
          THEN Panicked(em, "overflow")
          ELSE IF new_pc < 0
                 THEN Panicked(em, "pc_underflow")
                 ELSE Ok([em EXCEPT !.pc = AsUsize(new_pc)])

\* self.pc += 1
executeAdvance(r) ==
    IF r.panic # "none" THEN r
    ELSE IF ~InUsize(r.emulator.pc + 1) /\ overflow_checks
           THEN Panicked(r.emulator, "overflow")
           ELSE Ok([r.emulator EXCEPT !.pc = WrapUsize(r.emulator.pc + 1)])

\* variant: NoOperation(value) treated like Accumulate(value)
execute_nop_accumulates(em, instruction) ==
    executeAdvance(
      CASE instruction.op = "NoOperation" -> executeAccumulate(em, instruction.arg)
        [] instruction.op = "Accumulate" -> executeAccumulate(em, instruction.arg)
        [] instruction.op = "Jump" -> executeJump(em, instruction.arg))

execute(em, instruction) ==
    executeAdvance(
      CASE instruction.op = "NoOperation" -> Ok(em)
        [] instruction.op = "Accumulate" -> executeAccumulate(em, instruction.arg)
        [] instruction.op = "Jump" -> executeJump(em, instruction.arg))

----------------------------------------------------------------------------
(* TerminationCriteria, and the absence of a value *)

InfiniteLoop == [kind |-> "InfiniteLoop"]
Terminated(emulator) == [kind |-> "Terminated", emulator |-> emulator]
NoValue == [kind |-> "none"]

\* history record of one call of Emulator::execute
ExecRecord(by, em, instruction, r) ==
    [kind |-> "call", by |-> by, before |-> em, instruction |-> instruction,
     after |-> r.emulator, panic |-> r.panic]

----------------------------------------------------------------------------
(* Programs the model is run on *)

\* the program of test_emulator
ExampleProgram ==
    << NoOperation(0), Accumulate(1), Jump(4), Accumulate(3), Jump(-3),
       Accumulate(-99), Accumulate(1), Jump(-4), Accumulate(6) >>

\* the instructions of the generated programs: every NoOp and Jump, and two
\* Accumulate deltas that tell the executed instructions apart
Deltas == {-1, 2}
ProgramInstruction ==
    {NoOperation(v) : v \in Args} \cup {Jump(v) : v \in Args}
      \cup {Accumulate(v) : v \in Deltas}

\* every program of at most MaxLen such instructions
GeneratedPrograms == UNION {[1..n -> ProgramInstruction] : n \in 0..MaxLen}

Programs == GeneratedPrograms \cup {ExampleProgram}

----------------------------------------------------------------------------
(* main: the baseline driver, lines 23-28 *)

InitCommon ==
    /\ overflow_checks \in BOOLEAN
    /\ seen = {}
    /\ ret = NoValue
    /\ result = NoValue
    /\ panic = "none"
    /\ report = NoValue
    /\ baseline_trace = << >>
    /\ last_exec = NoValue
    /\ terminated_path = << >>
    /\ tried = << >>
    /\ baseline_states = << >>
    /\ first_run = NoValue
    /\ loaded = << >>
    /\ collected = << >>
    /\ sum_ret = NoValue
    /\ cipher = NoValue
    /\ last_insert = NoValue

\* line 30: the budget main hands to run_program
MainSearchBudget == 1

\* let mut e = Emulator::new(); let mut seen = HashSet::new();
Init ==
    /\ InitCommon
    /\ mutation = NoValue
    /\ permutations = NoValue
    /\ sum_call = NoValue
    /\ input = << >>
    /\ instructions \in Programs
    /\ phase = "baseline"
    /\ e = EmulatorNew
    /\ stack = << >>
    /\ initial_budget = MainSearchBudget

\* the process dies: nothing runs after a panic
\* variant: the panic is caught and reported as a loop to the caller
Abort_reports_loop(kind) ==
    /\ panic' = panic
    /\ phase' = phase
    /\ stack' = SubSeq(stack, 1, Len(stack) - 1)
    /\ ret' = [kind |-> "InfiniteLoop"]

Abort(kind) ==
    /\ panic' = kind
    /\ phase' = "aborted"
    /\ stack' = << >>
    /\ ret' = NoValue

\* while seen.insert(e.pc) { e.execute(instructions[e.pc]); }  -- one iteration
BaselineStepResult(em, instrs) ==
    IF InBounds(instrs, em.pc)
      THEN execute(em, Get(instrs, em.pc))
      ELSE Panicked(em, "index_out_of_bounds")

BaselineIterate ==
    /\ phase = "baseline"
    /\ e.pc \notin seen
    /\ seen' = seen \cup {e.pc}
    /\ baseline_trace' = Append(baseline_trace, e.pc)
    /\ baseline_states' = Append(baseline_states, e)
    /\ LET r == BaselineStepResult(e, instructions) IN
         /\ e' = r.emulator
         /\ last_exec' = IF InBounds(instructions, e.pc)
                           THEN ExecRecord("baseline", e, Get(instructions, e.pc), r)
                           ELSE last_exec
         /\ IF r.panic # "none"
              THEN /\ Abort(r.panic)
                   /\ UNCHANGED <<instructions, overflow_checks, result,
                                  report, initial_budget, last_insert, cipher,
                                  mutation, sum_ret, sum_call, collected,
                                  permutations, loaded, input, first_run,
                                  tried, terminated_path>>
              ELSE UNCHANGED <<instructions, overflow_checks, phase, stack,
                               ret, result, panic, report, initial_budget,
                               last_insert, cipher, mutation, sum_ret,
                               sum_call, collected, permutations, loaded,
                               input, first_run, tried, terminated_path>>

\* run_program(Emulator::new(), &instructions, 1, HashSet::new())
Frame(emulator, budget, hit, path) ==
    [emulator |-> emulator, instructions_that_can_change |-> budget,
     instructions_hit |-> hit, at |-> "loop", path |-> path]

\* seen.insert(e.pc) fails: the loop ends, println reports e, the search starts
\* variant: the instruction at the repeated pc is executed before reporting
BaselineReport_after_execute(em) ==
    LET r == execute(em, Get(instructions, em.pc)) IN
    [kind |-> "InfiniteLoop", pc |-> r.emulator.pc,
     accumulator |-> r.emulator.accumulator]

BaselineReport(em) == [kind |-> "InfiniteLoop", pc |-> em.pc, accumulator |-> em.accumulator]

BaselineLoopDetected ==
    /\ phase = "baseline"
    /\ e.pc \in seen
    /\ baseline_trace' = Append(baseline_trace, e.pc)
    /\ baseline_states' = Append(baseline_states, e)
    /\ report' = BaselineReport(e)
    /\ phase' = "search"
    /\ stack' = << Frame(EmulatorNew, MainSearchBudget, {}, << >>) >>
    /\ UNCHANGED <<instructions, overflow_checks, e, seen, ret, result,
                   panic, last_exec, initial_budget, last_insert, cipher,
                   mutation, sum_ret, sum_call, collected, permutations,
                   loaded, input, first_run, tried, terminated_path>>

----------------------------------------------------------------------------
(* run_program, lines 49-83.  Each invocation is a frame of `stack`; a frame *)
(* is at "loop" (about to test the while condition) or at "call" (waiting    *)
(* for the speculative invocation it started, line 68).  `path` is history:  *)
(* the (pc, instruction) pairs executed from pc = 0 to reach the frame's     *)
(* emulator.                                                                 *)

Top == stack[Len(stack)]
Pop == SubSeq(stack, 1, Len(stack) - 1)
ReplaceTop(f) == [stack EXCEPT ![Len(stack)] = f]

Step(pc, instruction) == [pc |-> pc, instruction |-> instruction]

\* variant: `> 1` written for `> 0`
MutationTaken_needs_two(instruction, budget) ==
    try_mutate(instruction).some /\ budget > 1

\* variant: the guard on the budget is left out
MutationTaken_ignores_budget(instruction, budget) ==
    try_mutate(instruction).some

\* line 64: Some(mutated) if instructions_that_can_change > 0
MutationTaken(instruction, budget) ==
    try_mutate(instruction).some /\ budget > 0

AtLoopHead ==
    /\ phase = "search"
    /\ stack # << >>
    /\ ret = NoValue
    /\ Top.at = "loop"

\* variant: the failed insert is ignored and the invocation spins
RunLoopDetected_spins ==
    /\ AtLoopHead
    /\ Top.emulator.pc \in Top.instructions_hit
    /\ UNCHANGED vars

\* variant: the visited set is shared with the caller instead of cloned
RunLoopDetected_shared_hit ==
    /\ AtLoopHead
    /\ Top.emulator.pc \in Top.instructions_hit
    /\ stack' = IF Len(stack) = 1 THEN Pop
                ELSE [Pop EXCEPT ![Len(stack) - 1].instructions_hit =
                                     Top.instructions_hit]
    /\ ret' = InfiniteLoop
    /\ UNCHANGED <<instructions, overflow_checks, phase, e, seen, result,
                   panic, report, baseline_trace, last_exec, initial_budget,
                   last_insert, cipher, mutation, sum_ret, sum_call,
                   collected, permutations, loaded, input, first_run,
                   baseline_states, tried, terminated_path>>

\* line 54: insert fails, line 82: TerminationCriteria::InfiniteLoop
RunLoopDetected ==
    /\ AtLoopHead
    /\ Top.emulator.pc \in Top.instructions_hit
    /\ stack' = Pop
    /\ ret' = InfiniteLoop
    /\ UNCHANGED <<instructions, overflow_checks, phase, e, seen, result,
                   panic, report, baseline_trace, last_exec, initial_budget,
                   last_insert, cipher, mutation, sum_ret, sum_call,
                   collected, permutations, loaded, input, first_run,
                   baseline_states, tried, terminated_path>>

\* lines 56-57: instructions.get(pc) is None
RunOffEnd ==
    /\ AtLoopHead
    /\ Top.emulator.pc \notin Top.instructions_hit
    /\ ~InBounds(instructions, Top.emulator.pc)
    /\ stack' = Pop
    /\ ret' = Terminated(Top.emulator)
    /\ terminated_path' = Top.path
    /\ UNCHANGED <<instructions, overflow_checks, phase, e, seen, result,
                   panic, report, baseline_trace, last_exec, initial_budget,
                   last_insert, cipher, mutation, sum_ret, sum_call,
                   collected, permutations, loaded, input, first_run,
                   baseline_states, tried>>

\* variant: the budget is handed on undiminished
SpeculativeFrame_same_budget(parent, hit, mutated, alternate_reality) ==
    Frame(alternate_reality, parent.instructions_that_can_change, hit,
          Append(parent.path, Step(parent.emulator.pc, mutated)))

\* variant: the speculative invocation starts with an empty visited set
SpeculativeFrame_fresh_hit(parent, hit, mutated, alternate_reality) ==
    Frame(alternate_reality, parent.instructions_that_can_change - 1, {},
          Append(parent.path, Step(parent.emulator.pc, mutated)))

\* lines 66-68: the frame of the speculative invocation
SpeculativeFrame(parent, hit, mutated, alternate_reality) ==
    Frame(alternate_reality, parent.instructions_that_can_change - 1, hit,
          Append(parent.path, Step(parent.emulator.pc, mutated)))

\* history of one speculative invocation: where its mutation was made, by the
\* invocation at which depth of the stack, and what it returned
Attempt(pc, depth, outcome) == [pc |-> pc, depth |-> depth, outcome |-> outcome]

\* the invocation at `depth` receives `outcome` from its speculative invocation
Resolve(attempts, depth, outcome) ==
    LET open == {i \in DOMAIN attempts : /\ attempts[i].depth = depth
                                         /\ attempts[i].outcome = "pending"}
    IN  [i \in DOMAIN attempts |->
            IF i \in open THEN [attempts[i] EXCEPT !.outcome = outcome]
            ELSE attempts[i]]

\* variant: the mutated instruction is executed on the caller's own emulator,
\* not on a clone
RunSpeculate_without_clone ==
    /\ AtLoopHead
    /\ Top.emulator.pc \notin Top.instructions_hit
    /\ InBounds(instructions, Top.emulator.pc)
    /\ LET pc == Top.emulator.pc
           next_instruction == Get(instructions, pc)
           hit == Top.instructions_hit \cup {pc}
       IN  /\ MutationTaken(next_instruction, Top.instructions_that_can_change)
           /\ LET mutated == try_mutate(next_instruction).value
                  r == execute(Top.emulator, mutated)
              IN  /\ last_exec' = ExecRecord("speculative", Top.emulator, mutated, r)
                  /\ tried' = Append(tried,
                         Attempt(pc, Len(stack),
                                 IF r.panic # "none" THEN "panicked" ELSE "pending"))
                  /\ IF r.panic # "none"
                       THEN Abort(r.panic)
                       ELSE /\ stack' = Append(
                                   ReplaceTop([Top EXCEPT !.emulator = r.emulator,
                                                          !.instructions_hit = hit,
                                                          !.at = "call"]),
                                   SpeculativeFrame(Top, hit, mutated, r.emulator))
                            /\ UNCHANGED <<phase, ret, panic>>
    /\ UNCHANGED <<instructions, overflow_checks, e, seen, result, report,
                   baseline_trace, initial_budget, last_insert, cipher,
                   mutation, sum_ret, sum_call, collected, permutations,
                   loaded, input, first_run, baseline_states,
                   terminated_path>>

\* lines 63-68: clone, execute the mutated instruction, recurse
RunSpeculate ==
    /\ AtLoopHead
    /\ Top.emulator.pc \notin Top.instructions_hit
    /\ InBounds(instructions, Top.emulator.pc)
    /\ LET pc == Top.emulator.pc
           next_instruction == Get(instructions, pc)
           hit == Top.instructions_hit \cup {pc}
       IN  /\ MutationTaken(next_instruction, Top.instructions_that_can_change)
           /\ LET mutated == try_mutate(next_instruction).value
                  r == execute(Top.emulator, mutated)
              IN  /\ last_exec' = ExecRecord("speculative", Top.emulator, mutated, r)
                  /\ tried' = Append(tried,
                         Attempt(pc, Len(stack),
                                 IF r.panic # "none" THEN "panicked" ELSE "pending"))
                  /\ IF r.panic # "none"
                       THEN Abort(r.panic)
                       ELSE /\ stack' = Append(
                                   ReplaceTop([Top EXCEPT !.instructions_hit = hit,
                                                          !.at = "call"]),
                                   SpeculativeFrame(Top, hit, mutated, r.emulator))
                            /\ UNCHANGED <<phase, ret, panic>>
    /\ UNCHANGED <<instructions, overflow_checks, e, seen, result, report,
                   baseline_trace, initial_budget, last_insert, cipher,
                   mutation, sum_ret, sum_call, collected, permutations,
                   loaded, input, first_run, baseline_states,
                   terminated_path>>

\* variant: the pc of the executed instruction is not kept in the visited set
ExecuteOriginal_unrecorded(frame, hit) ==
    LET pc == frame.emulator.pc
        next_instruction == Get(instructions, pc)
        r == execute(frame.emulator, next_instruction)
    IN  /\ last_exec' = ExecRecord("search", frame.emulator, next_instruction, r)
        /\ IF r.panic # "none"
             THEN Abort(r.panic)
             ELSE /\ stack' = ReplaceTop(
                         [frame EXCEPT !.emulator = r.emulator,
                                       !.instructions_hit = hit \ {pc},
                                       !.at = "loop",
                                       !.path = Append(frame.path,
                                                       Step(pc, next_instruction))])
                  /\ ret' = NoValue
                  /\ UNCHANGED <<phase, panic>>

\* variant: the budget is spent by the step, whether a branch was taken or not
ExecuteOriginal_spends_budget(frame, hit) ==
    LET pc == frame.emulator.pc
        next_instruction == Get(instructions, pc)
        r == execute(frame.emulator, next_instruction)
    IN  /\ last_exec' = ExecRecord("search", frame.emulator, next_instruction, r)
        /\ IF r.panic # "none"
             THEN Abort(r.panic)
             ELSE /\ stack' = ReplaceTop(
                         [frame EXCEPT !.emulator = r.emulator,
                                       !.instructions_that_can_change = 0,
                                       !.instructions_hit = hit,
                                       !.at = "loop",
                                       !.path = Append(frame.path,
                                                       Step(pc, next_instruction))])
                  /\ ret' = NoValue
                  /\ UNCHANGED <<phase, panic>>

\* line 79: emulator.execute(*next_instruction) on the frame's own emulator
ExecuteOriginal(frame, hit) ==
    LET pc == frame.emulator.pc
        next_instruction == Get(instructions, pc)
        r == execute(frame.emulator, next_instruction)
    IN  /\ last_exec' = ExecRecord("search", frame.emulator, next_instruction, r)
        /\ IF r.panic # "none"
             THEN Abort(r.panic)
             ELSE /\ stack' = ReplaceTop(
                         [frame EXCEPT !.emulator = r.emulator,
                                       !.instructions_hit = hit,
                                       !.at = "loop",
                                       !.path = Append(frame.path,
                                                       Step(pc, next_instruction))])
                  /\ ret' = NoValue
                  /\ UNCHANGED <<phase, panic>>

\* lines 63, 76, 79: no mutation is taken, pass through
RunExecute ==
    /\ AtLoopHead
    /\ Top.emulator.pc \notin Top.instructions_hit
    /\ InBounds(instructions, Top.emulator.pc)
    /\ ~MutationTaken(Get(instructions, Top.emulator.pc),
                      Top.instructions_that_can_change)
    /\ ExecuteOriginal(Top, Top.instructions_hit \cup {Top.emulator.pc})
    /\ UNCHANGED <<instructions, overflow_checks, e, seen, result, report,
                   baseline_trace, initial_budget, last_insert, cipher,
                   mutation, sum_ret, sum_call, collected, permutations,
                   loaded, input, first_run, baseline_states, tried,
                   terminated_path>>

AtCall ==
    /\ phase = "search"
    /\ stack # << >>
    /\ ret # NoValue
    /\ Top.at = "call"

\* variant: the result of the speculative invocation is dropped
RunBranchTerminated_ignored ==
    /\ AtCall
    /\ ret.kind = "Terminated"
    /\ ExecuteOriginal(Top, Top.instructions_hit)
    /\ tried' = Resolve(tried, Len(stack), "Terminated")
    /\ UNCHANGED <<instructions, overflow_checks, e, seen, result, report,
                   baseline_trace, initial_budget, last_insert, cipher,
                   mutation, sum_ret, sum_call, collected, permutations,
                   loaded, input, first_run, baseline_states,
                   terminated_path>>

\* lines 70-73: the speculative invocation terminated, pass that up the stack
RunBranchTerminated ==
    /\ AtCall
    /\ ret.kind = "Terminated"
    /\ stack' = Pop
    /\ tried' = Resolve(tried, Len(stack), "Terminated")
    /\ UNCHANGED <<instructions, overflow_checks, phase, e, seen, ret,
                   result, panic, report, baseline_trace, last_exec,
                   initial_budget, last_insert, cipher, mutation, sum_ret,
                   sum_call, collected, permutations, loaded, input,
                   first_run, baseline_states, terminated_path>>

\* variant: after a failed speculative invocation the caller goes on with
\* the mutated instruction
RunBranchLooped_keeps_mutation ==
    /\ AtCall
    /\ ret.kind = "InfiniteLoop"
    /\ LET pc == Top.emulator.pc
           mutated == try_mutate(Get(instructions, pc)).value
           r == execute(Top.emulator, mutated)
       IN  /\ last_exec' = ExecRecord("search", Top.emulator, mutated, r)
           /\ IF r.panic # "none"
                THEN Abort(r.panic)
                ELSE /\ stack' = ReplaceTop(
                            [Top EXCEPT !.emulator = r.emulator,
                                        !.at = "loop",
                                        !.path = Append(Top.path,
                                                        Step(pc, mutated))])
                     /\ ret' = NoValue
                     /\ UNCHANGED <<phase, panic>>
    /\ tried' = Resolve(tried, Len(stack), "InfiniteLoop")
    /\ UNCHANGED <<instructions, overflow_checks, e, seen, result, report,
                   baseline_trace, initial_budget, last_insert, cipher,
                   mutation, sum_ret, sum_call, collected, permutations,
                   loaded, input, first_run, baseline_states,
                   terminated_path>>

\* lines 70, 74, 79: it did not, continue executing from here
RunBranchLooped ==
    /\ AtCall
    /\ ret.kind = "InfiniteLoop"
    /\ ExecuteOriginal(Top, Top.instructions_hit)
    /\ tried' = Resolve(tried, Len(stack), "InfiniteLoop")
    /\ UNCHANGED <<instructions, overflow_checks, e, seen, result, report,
                   baseline_trace, initial_budget, last_insert, cipher,
                   mutation, sum_ret, sum_call, collected, permutations,
                   loaded, input, first_run, baseline_states,
                   terminated_path>>

\* lines 30-37: main matches on the value of the top-level invocation
SearchReturn ==
    /\ phase = "search"
    /\ stack = << >>
    /\ ret # NoValue
    /\ result' = ret
    /\ phase' = "done"
    /\ UNCHANGED <<instructions, overflow_checks, e, seen, stack, ret, panic,
                   report, baseline_trace, last_exec, initial_budget,
                   last_insert, cipher, mutation, sum_ret, sum_call,
                   collected, permutations, loaded, input, first_run,
                   baseline_states, tried, terminated_path>>

Run ==
    \/ RunLoopDetected
    \/ RunOffEnd
    \/ RunSpeculate
    \/ RunExecute
    \/ RunBranchTerminated
    \/ RunBranchLooped
    \/ SearchReturn

Next ==
    \/ BaselineIterate
    \/ BaselineLoopDetected
    \/ Run

Spec == Init /\ [][Next]_vars

----------------------------------------------------------------------------
(* main run a second time on the same input: lines 18-24 build the program  *)
(* again and create a new emulator and a new visited set.  What the first   *)
(* run went through is kept in first_run; the other history starts afresh.  *)

RunRecord == [states |-> baseline_states, report |-> report, e |-> e,
              panic |-> panic]

\* variant: the visited set of the earlier run is used again
Rerun_stale_seen ==
    /\ phase \in {"done", "aborted"}
    /\ first_run = NoValue
    /\ first_run' = RunRecord
    /\ e' = EmulatorNew
    /\ phase' = "baseline"
    /\ stack' = << >>
    /\ ret' = NoValue
    /\ result' = NoValue
    /\ panic' = "none"
    /\ report' = NoValue
    /\ baseline_trace' = << >>
    /\ baseline_states' = << >>
    /\ last_exec' = NoValue
    /\ tried' = << >>
    /\ terminated_path' = << >>
    /\ UNCHANGED <<instructions, overflow_checks, initial_budget,
                   last_insert, cipher, mutation, sum_ret, sum_call,
                   collected, permutations, loaded, input, seen>>

\* lines 23-24: let mut e = Emulator::new(); let mut seen = HashSet::new();
Rerun ==
    /\ phase \in {"done", "aborted"}
    /\ first_run = NoValue
    /\ first_run' = RunRecord
    /\ e' = EmulatorNew
    /\ seen' = {}
    /\ phase' = "baseline"
    /\ stack' = << >>
    /\ ret' = NoValue
    /\ result' = NoValue
    /\ panic' = "none"
    /\ report' = NoValue
    /\ baseline_trace' = << >>
    /\ baseline_states' = << >>
    /\ last_exec' = NoValue
    /\ tried' = << >>
    /\ terminated_path' = << >>
    /\ UNCHANGED <<instructions, overflow_checks, initial_budget,
                   last_insert, cipher, mutation, sum_ret, sum_call,
                   collected, permutations, loaded, input>>

RerunNext ==
    \/ Next
    \/ Rerun

RerunSpec == Init /\ [][RerunNext]_vars

----------------------------------------------------------------------------
(* run_program called directly (it is `pub`), on any program and budget *)

SearchInit ==
    /\ InitCommon
    /\ mutation = NoValue
    /\ permutations = NoValue
    /\ sum_call = NoValue
    /\ input = << >>
    /\ instructions \in GeneratedPrograms
    /\ phase = "search"
    /\ e = EmulatorNew
    /\ initial_budget \in 0..MaxBudget
    /\ stack = << Frame(EmulatorNew, initial_budget, {}, << >>) >>

SearchNext == Run

SearchSpec == SearchInit /\ [][SearchNext]_vars

(* The same call in a process that keeps running: a step that can be taken *)
(* is eventually taken.  The programs are those over one Accumulate and the *)
(* NoOperations and Jumps that go one back or two ahead.                     *)

Hops == {-1, 2}
HopInstruction ==
    {NoOperation(v) : v \in Hops} \cup {Jump(v) : v \in Hops}
      \cup {Accumulate(1)}
HopPrograms == UNION {[1..n -> HopInstruction] : n \in 0..MaxLen}

FairSearchInit ==
    /\ InitCommon
    /\ mutation = NoValue
    /\ permutations = NoValue
    /\ sum_call = NoValue
    /\ input = << >>
    /\ instructions \in HopPrograms
    /\ phase = "search"
    /\ e = EmulatorNew
    /\ initial_budget \in 0..MaxBudget
    /\ stack = << Frame(EmulatorNew, initial_budget, {}, << >>) >>

FairSearchSpec ==
    FairSearchInit /\ [][SearchNext]_vars /\ WF_vars(SearchNext)

----------------------------------------------------------------------------
(* Emulator::execute called directly on any emulator state, as a test does *)

ExecInit ==
    /\ InitCommon
    /\ mutation = NoValue
    /\ permutations = NoValue
    /\ sum_call = NoValue
    /\ input = << >>
    /\ instructions = << >>
    /\ phase = "execute"
    /\ e \in [accumulator : (-MaxAcc)..MaxAcc, pc : 0..MaxPc]
    /\ stack = << >>
    /\ initial_budget = 0

ExecuteCall ==
    /\ phase = "execute"
    /\ e.pc <= MaxPc
    /\ e.accumulator \in (-MaxAcc)..MaxAcc
    /\ \E instruction \in Instruction :
         LET r == execute(e, instruction) IN
           /\ e' = r.emulator
           /\ last_exec' = ExecRecord("direct", e, instruction, r)
           /\ IF r.panic # "none"
                THEN Abort(r.panic)
                ELSE UNCHANGED <<phase, stack, ret, panic>>
    /\ UNCHANGED <<instructions, overflow_checks, seen, result, report,
                   baseline_trace, initial_budget, last_insert, cipher,
                   mutation, sum_ret, sum_call, collected, permutations,
                   loaded, input, first_run, baseline_states, tried,
                   terminated_path>>

ExecNext == ExecuteCall

ExecSpec == ExecInit /\ [][ExecNext]_vars

----------------------------------------------------------------------------
(* Instruction::try_mutate called directly on any instruction, and again on *)
(* the instruction it returns                                               *)

AnyArgs == ((-MaxArg) - 1)..(MaxArg + 1) \cup {I64Min, I64Max}

AnyInstruction ==
    {NoOperation(v) : v \in AnyArgs} \cup {Accumulate(v) : v \in AnyArgs}
      \cup {Jump(v) : v \in AnyArgs}

MutateInit ==
    /\ InitCommon
    /\ instructions = << >>
    /\ input = << >>
    /\ permutations = NoValue
    /\ sum_call = NoValue
    /\ phase = "mutate"
    /\ e = EmulatorNew
    /\ stack = << >>
    /\ initial_budget = 0
    /\ \E self \in AnyInstruction :
          mutation = [self |-> self, once |-> NoValue, twice |-> NoValue]

TryMutateCall ==
    /\ phase = "mutate"
    /\ mutation' = [mutation EXCEPT !.once = try_mutate(mutation.self)]
    /\ phase' = "mutated"
    /\ UNCHANGED <<instructions, overflow_checks, e, seen, stack, ret,
                   result, panic, report, baseline_trace, last_exec,
                   initial_budget, last_insert, cipher, terminated_path,
                   tried, baseline_states, first_run, input, loaded,
                   permutations, collected, sum_call, sum_ret>>

TryMutateAgain ==
    /\ phase = "mutated"
    /\ mutation.once.some
    /\ mutation' = [mutation EXCEPT !.twice = try_mutate(mutation.once.value)]
    /\ phase' = "mutated twice"
    /\ UNCHANGED <<instructions, overflow_checks, e, seen, stack, ret,
                   result, panic, report, baseline_trace, last_exec,
                   initial_budget, last_insert, cipher, terminated_path,
                   tried, baseline_states, first_run, input, loaded,
                   permutations, collected, sum_call, sum_ret>>

MutateNext ==
    \/ TryMutateCall
    \/ TryMutateAgain

MutateSpec == MutateInit /\ [][MutateNext]_vars

----------------------------------------------------------------------------
(* Instruction::from_str, lines 114-132.  A line is a sequence of characters, *)
(* each a one-character string.                                              *)

MaxArgText == 3

Whitespace == {" ", "\t"}
Digits == <<"0", "1", "2", "3", "4", "5", "6", "7", "8", "9">>
IsDigit(c) == \E d \in DOMAIN Digits : Digits[d] = c
to_digit(c) == (CHOOSE d \in DOMAIN Digits : Digits[d] = c) - 1

DecodeOk(value) == [ok |-> TRUE, value |-> value]
DecodeErr(err) == [ok |-> FALSE, err |-> err]

\* s.splitn(2, char::is_whitespace): split at the first whitespace character
splitn2(s) ==
    LET at == {i \in DOMAIN s : s[i] \in Whitespace} IN
    IF at = {} THEN << s >>
    ELSE LET i == CHOOSE i \in at : \A j \in at : i <= j
         IN  << SubSeq(s, 1, i - 1), SubSeq(s, i + 1, Len(s)) >>

\* the digit loop of str::parse::<i64>: checked_mul(10), then checked_add or
\* checked_sub of the digit
RECURSIVE parseDigits(_, _, _)
parseDigits(digits, is_positive, number) ==
    IF digits = << >> THEN DecodeOk(number)
    ELSE IF ~IsDigit(Head(digits)) THEN DecodeErr("InvalidDigit")
    ELSE LET x == to_digit(Head(digits))
             added == IF is_positive THEN number * 10 + x ELSE number * 10 - x
         IN  IF ~InI64(number * 10) \/ ~InI64(added)
               THEN DecodeErr(IF is_positive THEN "PosOverflow" ELSE "NegOverflow")
               ELSE parseDigits(Tail(digits), is_positive, added)

\* variant: the sign is read and then dropped
parse_sign_dropped(src) ==
    IF src = << >> THEN DecodeErr("Empty")
    ELSE IF Head(src) \in {"+", "-"}
      THEN IF Tail(src) = << >> THEN DecodeErr("InvalidDigit")
           ELSE parseDigits(Tail(src), TRUE, 0)
      ELSE parseDigits(src, TRUE, 0)

\* arg.parse() with the target type i64
parse(src) ==
    IF src = << >> THEN DecodeErr("Empty")
    ELSE IF Head(src) \in {"+", "-"}
      THEN IF Tail(src) = << >> THEN DecodeErr("InvalidDigit")
           ELSE parseDigits(Tail(src), Head(src) = "+", 0)
      ELSE parseDigits(src, TRUE, 0)

nop == <<"n", "o", "p">>
acc == <<"a", "c", "c">>
jmp == <<"j", "m", "p">>

from_str(s) ==
    LET split == splitn2(s)
        op == split[1]
        arg == IF Len(split) = 2 THEN Some(split[2]) ELSE None
    IN  IF op \in {nop, acc, jmp}
          THEN IF arg.some
                 THEN LET value == parse(arg.value) IN
                      IF ~value.ok THEN value
                      ELSE IF op = nop THEN DecodeOk(NoOperation(value.value))
                      ELSE IF op = acc THEN DecodeOk(Accumulate(value.value))
                      ELSE DecodeOk(Jump(value.value))
                 ELSE DecodeErr("Expected argument, got none")
          ELSE DecodeErr("Unexpected Operation")

(* from_str called directly on one line, as test_instruction_from_str does *)

OpTexts == {nop, acc, jmp, <<"N", "O", "P">>, <<"n", "o">>, << >>,
            <<"b", "o", "g", "u", "s">>}
Separators == {<< >>, <<" ">>, <<"\t">>, <<" ", " ">>}
ArgChars == {"+", "-", "0", "1", "4", "9", "x"}

RECURSIVE Texts(_, _)
Texts(chars, n) ==
    IF n = 0 THEN {<< >>}
    ELSE LET shorter == Texts(chars, n - 1)
         IN  shorter \cup {Append(t, c) : t \in shorter, c \in chars}

Lines == {o \o sep \o a : o \in OpTexts, sep \in Separators,
                          a \in Texts(ArgChars, MaxArgText)}

ParseInit ==
    /\ InitCommon
    /\ mutation = NoValue
    /\ permutations = NoValue
    /\ sum_call = NoValue
    /\ instructions = << >>
    /\ phase = "parse"
    /\ e = EmulatorNew
    /\ stack = << >>
    /\ initial_budget = 0
    /\ \E line \in Lines : input = << line >>

FromStrCall ==
    /\ phase = "parse"
    /\ loaded' = Append(loaded, from_str(input[1]))
    /\ phase' = "parsed"
    /\ UNCHANGED <<instructions, overflow_checks, e, seen, stack, ret,
                   result, panic, report, baseline_trace, last_exec,
                   initial_budget, last_insert, cipher, mutation, sum_ret,
                   sum_call, collected, permutations, terminated_path, tried,
                   baseline_states, first_run, input>>

ParseNext == FromStrCall

ParseSpec == ParseInit /\ [][ParseNext]_vars

----------------------------------------------------------------------------
(* main from the load on, lines 18-21: every line goes through from_str and *)
(* unwrap, in order, and the vector is bound to `instructions` when the     *)
(* iterator is exhausted                                                    *)

InputLines ==
    {acc \o <<" ", "+", "1">>, nop \o <<" ", "+", "1">>,
     jmp \o <<" ", "-", "1">>, jmp \o <<" ", "+", "0">>,
     acc, jmp \o <<" ", "x">>, <<"b", "o", "g", "u", "s", " ", "+", "1">>}

RECURSIVE Inputs(_)
Inputs(n) ==
    IF n = 0 THEN {<< >>}
    ELSE LET shorter == Inputs(n - 1)
         IN  shorter \cup {Append(lines, line) : lines \in shorter,
                                                 line \in InputLines}

LoadInit ==
    /\ InitCommon
    /\ mutation = NoValue
    /\ permutations = NoValue
    /\ sum_call = NoValue
    /\ input \in Inputs(MaxLen)
    /\ instructions = << >>
    /\ phase = "load"
    /\ e = EmulatorNew
    /\ stack = << >>
    /\ initial_budget = MainSearchBudget

\* variant: a line that does not decode is replaced by a no-op
LoadLine_lossy ==
    /\ phase = "load"
    /\ Len(loaded) < Len(input)
    /\ LET decoded == from_str(input[Len(loaded) + 1]) IN
         /\ loaded' = Append(loaded, IF decoded.ok THEN decoded
                                     ELSE DecodeOk(NoOperation(0)))
         /\ UNCHANGED <<phase, stack, ret, panic>>
    /\ UNCHANGED <<instructions, overflow_checks, e, seen, result, report,
                   baseline_trace, last_exec, initial_budget, last_insert,
                   cipher, mutation, sum_ret, sum_call, collected,
                   permutations, terminated_path, tried, baseline_states,
                   first_run, input>>

\* line 20: Instruction::from_str(&i).unwrap() on the next line
LoadLine ==
    /\ phase = "load"
    /\ Len(loaded) < Len(input)
    /\ LET decoded == from_str(input[Len(loaded) + 1]) IN
         /\ loaded' = Append(loaded, decoded)
         /\ IF decoded.ok
              THEN UNCHANGED <<phase, stack, ret, panic>>
              ELSE Abort("unwrap_on_err")
    /\ UNCHANGED <<instructions, overflow_checks, e, seen, result, report,
                   baseline_trace, last_exec, initial_budget, last_insert,
                   cipher, mutation, sum_ret, sum_call, collected,
                   permutations, terminated_path, tried, baseline_states,
                   first_run, input>>

\* lines 18, 21: collect() returns, the baseline driver starts
LoadDone ==
    /\ phase = "load"
    /\ Len(loaded) = Len(input)
    /\ instructions' = [i \in DOMAIN loaded |-> loaded[i].value]
    /\ phase' = "baseline"
    /\ UNCHANGED <<overflow_checks, e, seen, stack, ret, result, panic,
                   report, baseline_trace, last_exec, initial_budget,
                   last_insert, cipher, mutation, sum_ret, sum_call,
                   collected, permutations, terminated_path, tried,
                   baseline_states, first_run, input, loaded>>

LoadNext ==
    \/ LoadLine
    \/ LoadDone
    \/ Next

LoadSpec == LoadInit /\ [][LoadNext]_vars

----------------------------------------------------------------------------
(* day-1: Permutations, src/day-1/src/main.rs lines 79-137.  `elements` is   *)
(* the borrowed slice, `indexes` the vector of indexes, least significant   *)
(* first; positions of a Vec are 0-based in the code and 1-based here.  A   *)
(* reference &elements[i] is modelled by the index i.                       *)

MaxElems == 4
MaxSelect == 4
ElementValues == {-1, 0, 1, 2}

RECURSIVE Slices(_)
Slices(n) ==
    IF n = 0 THEN {<< >>}
    ELSE LET shorter == Slices(n - 1)
         IN  shorter \cup {Append(slice, v) : slice \in shorter,
                                              v \in ElementValues}

\* Permutations::new: indexes = (0..).take(num_indexes), reversed
PermutationsNew(elems, num_indexes) ==
    [elements |-> elems,
     indexes |-> [i \in 1..num_indexes |-> num_indexes - i]]

Returned(self, value) == [self |-> self, value |-> value]

\* variant: the index is incremented and never carried
inc_index_no_carry(self, idx) ==
    IF idx >= Len(self.indexes) THEN Returned(self, None)
    ELSE LET incremented == [self EXCEPT !.indexes[idx + 1] = @ + 1]
         IN  Returned(incremented, Some(incremented.indexes[idx + 1] + 1))

\* inc_index, lines 96-118
RECURSIVE inc_index(_, _)
inc_index(self, idx) ==
    IF idx >= Len(self.indexes) THEN Returned(self, None)
    ELSE
      LET incremented == [self EXCEPT !.indexes[idx + 1] = @ + 1] IN
      IF incremented.indexes[idx + 1] >= Len(incremented.elements)
        THEN LET carry == inc_index(incremented, idx + 1) IN
             IF carry.value.some /\ carry.value.value < Len(self.elements)
               THEN Returned([carry.self EXCEPT
                                 !.indexes[idx + 1] = carry.value.value],
                             Some(carry.value.value + 1))
             ELSE IF carry.value.some
               THEN LET elem_len == Len(self.elements) IN
                    inc_index(IF idx + 1 < Len(carry.self.indexes)
                                THEN [carry.self EXCEPT
                                         !.indexes[idx + 2] = elem_len]
                                ELSE carry.self,
                              idx)
             ELSE Returned(carry.self, None)
        ELSE Returned(incremented, Some(incremented.indexes[idx + 1] + 1))

\* Iterator::next, lines 123-136
next(self) ==
    LET len == Len(self.indexes)
        elems == [i \in 1..len |->
                    LET idx == self.indexes[len + 1 - i] IN
                    IF idx < Len(self.elements) THEN Some(idx) ELSE None]
    IN  IF \E i \in 1..len : ~elems[i].some
          THEN Returned(self, None)
          ELSE Returned(inc_index(self, 0).self,
                        Some([i \in 1..len |-> elems[i].value]))

(* Permutations::new(..) and then next() called until it has returned None *)
(* twice, as collect() and a further call do                               *)

NoneCount(items) == Cardinality({i \in DOMAIN items : ~items[i].some})

PermInit ==
    /\ InitCommon
    /\ mutation = NoValue
    /\ instructions = << >>
    /\ input = << >>
    /\ phase = "iterate"
    /\ e = EmulatorNew
    /\ stack = << >>
    /\ initial_budget = 0
    /\ sum_call = NoValue
    /\ \E elems \in Slices(MaxElems), num_indexes \in 1..MaxSelect :
          permutations = PermutationsNew(elems, num_indexes)

IterateNext ==
    /\ phase = "iterate"
    /\ NoneCount(collected) < 2
    /\ LET r == next(permutations) IN
         /\ permutations' = r.self
         /\ collected' = Append(collected, r.value)
    /\ UNCHANGED <<instructions, overflow_checks, phase, e, seen, stack, ret,
                   result, panic, report, baseline_trace, last_exec,
                   initial_budget, last_insert, cipher, mutation,
                   terminated_path, tried, baseline_states, first_run, input,
                   loaded, sum_call, sum_ret>>

PermNext == IterateNext

PermSpec == PermInit /\ [][PermNext]_vars

----------------------------------------------------------------------------
(* day-1: get_sum_to and get_sum_tree, src/day-1/src/main.rs lines 57-69,   *)
(* and SumTree, src/day-1/src/tree.rs lines 7-62                            *)

RECURSIVE SumOf(_)
SumOf(values) ==
    IF values = << >> THEN 0 ELSE Head(values) + SumOf(Tail(values))

Deref(elements, refs) == [i \in DOMAIN refs |-> elements[refs[i] + 1]]

\* .filter(|perm| perm.into_iter().copied().sum::<i64>() == n).next()
RECURSIVE FilterNext(_, _)
FilterNext(iter, n) ==
    LET r == next(iter) IN
    IF ~r.value.some THEN None
    ELSE IF SumOf(Deref(iter.elements, r.value.value)) = n THEN r.value
    ELSE FilterNext(r.self, n)

get_sum_to(n, to_sum, in) == FilterNext(PermutationsNew(in, to_sum), n)

\* SumTree::new
SumTreeNew(max_depth) ==
    [children |-> << >>, number |-> 0, sum |-> 0, depth |-> max_depth]

\* SumTree::insert, tree.rs lines 21-40
RECURSIVE insert(_, _)
insert(self, value) ==
    IF self.depth <= 0 THEN self
    ELSE LET new_entry == [children |-> << >>, number |-> value,
                           sum |-> self.sum + value, depth |-> self.depth - 1]
         IN  [self EXCEPT !.children =
                 Append([i \in DOMAIN self.children |->
                            insert(self.children[i], value)],
                        new_entry)]

\* SumTree::find, tree.rs lines 41-61
RECURSIVE find(_, _)
find(self, sum) ==
    IF self.depth = 0 /\ self.sum = sum THEN Some(<< self.number >>)
    ELSE IF self.children # << >> /\ self.sum < sum
      THEN LET matches == {i \in DOMAIN self.children :
                              find(self.children[i], sum).some}
           IN  IF matches = {} THEN None
               ELSE LET first == CHOOSE i \in matches :
                                     \A j \in matches : i <= j
                        v == find(self.children[first], sum).value
                    IN  Some(IF self.number # 0 THEN Append(v, self.number)
                             ELSE v)
      ELSE None

\* for each in input { t.insert(*each); }
RECURSIVE InsertAll(_, _)
InsertAll(t, in) ==
    IF in = << >> THEN t ELSE InsertAll(insert(t, Head(in)), Tail(in))

get_sum_tree(n, to_sum, in) == find(InsertAll(SumTreeNew(to_sum), in), n)

(* both functions called on the same arguments, as the two tests do *)

Targets == {-1, 0, 1, 2, 3, 5}

SumInit ==
    /\ InitCommon
    /\ mutation = NoValue
    /\ instructions = << >>
    /\ input = << >>
    /\ phase = "sum"
    /\ e = EmulatorNew
    /\ stack = << >>
    /\ initial_budget = 0
    /\ permutations = NoValue
    /\ sum_call \in [n : Targets, to_sum : 1..MaxSelect,
                     input : Slices(MaxElems)]

GetSumCall ==
    /\ phase = "sum"
    /\ sum_ret' = [get_sum_to |-> get_sum_to(sum_call.n, sum_call.to_sum,
                                             sum_call.input),
                   get_sum_tree |-> get_sum_tree(sum_call.n, sum_call.to_sum,
                                                 sum_call.input)]
    /\ phase' = "summed"
    /\ UNCHANGED <<instructions, overflow_checks, e, seen, stack, ret,
                   result, panic, report, baseline_trace, last_exec,
                   initial_budget, last_insert, cipher, mutation,
                   terminated_path, tried, baseline_states, first_run, input,
                   loaded, permutations, collected, sum_call>>

SumNext == GetSumCall

SumSpec == SumInit /\ [][SumNext]_vars

----------------------------------------------------------------------------
(* Reference semantics used to state the properties: plain execution of a   *)
(* program with loop detection, and the single swaps that make it terminate *)

IsPrefix(a, b) == Len(a) <= Len(b) /\ SubSeq(b, 1, Len(a)) = a
Range(f) == {f[i] : i \in DOMAIN f}
NoRepeat(f) == \A i, j \in DOMAIN f : i # j => f[i] # f[j]

RECURSIVE PlainRun(_, _, _)
PlainRun(prog, em, hit) ==
    IF em.pc \in hit THEN [kind |-> "InfiniteLoop", emulator |-> em]
    ELSE IF ~InBounds(prog, em.pc) THEN [kind |-> "Terminated", emulator |-> em]
    ELSE LET r == execute(em, Get(prog, em.pc)) IN
         IF r.panic # "none" THEN [kind |-> "Panic", emulator |-> em]
         ELSE PlainRun(prog, r.emulator, hit \cup {em.pc})

\* the pcs of the instructions that plain execution executes, in order
RECURSIVE PlainPath(_, _, _)
PlainPath(prog, em, hit) ==
    IF em.pc \in hit \/ ~InBounds(prog, em.pc) THEN << >>
    ELSE LET r == execute(em, Get(prog, em.pc)) IN
         IF r.panic # "none" THEN << em.pc >>
         ELSE << em.pc >> \o PlainPath(prog, r.emulator, hit \cup {em.pc})

PlainOutcome(prog) == PlainRun(prog, EmulatorNew, {}).kind

Partner(instruction) ==
    IF instruction.op = "NoOperation" THEN Jump(instruction.arg)
    ELSE IF instruction.op = "Jump" THEN NoOperation(instruction.arg)
    ELSE instruction

Swap(prog, i) == [prog EXCEPT ![i + 1] = Partner(prog[i + 1])]

\* the "broken" instructions: their swap makes plain execution run off the end
Fixes(prog) ==
    {i \in 0..(Len(prog) - 1) :
        /\ prog[i + 1].op \in {"NoOperation", "Jump"}
        /\ PlainOutcome(Swap(prog, i)) = "Terminated"}

\* the emulator after executing, from a fresh emulator, the instructions at pcs
RECURSIVE Replay(_, _, _)
Replay(prog, em, pcs) ==
    IF pcs = << >> THEN em
    ELSE Replay(prog, execute(em, Get(prog, Head(pcs))).emulator, Tail(pcs))

SearchEnded == phase \in {"done", "aborted"}

----------------------------------------------------------------------------
(* Properties *)

\* C1: on the example program the search with budget 1 returns Terminated
\* with accumulator 8, by executing jmp -4 at index 7 as nop -4, the path
\* visiting pcs 0,1,2,6,7,8 and ending at pc 9.
C1_ExampleRepaired ==
    (instructions = ExampleProgram /\ initial_budget = 1 /\ SearchEnded)
      => /\ phase = "done"
         /\ result = Terminated([accumulator |-> 8, pc |-> 9])
         /\ [i \in DOMAIN terminated_path |-> terminated_path[i].pc]
              = <<0, 1, 2, 6, 7, 8>>
         /\ terminated_path[5].instruction = NoOperation(-4)

\* C2 (as stated): a program with exactly one broken NoOp/Jump makes
\* run_program with budget 1 return Terminated.
C2_OneFixAlwaysTerminated ==
    (initial_budget = 1 /\ SearchEnded /\ Cardinality(Fixes(instructions)) = 1)
      => (phase = "done" /\ result.kind = "Terminated")

\* C2 (amended): for such a program run_program with budget 1 never returns
\* InfiniteLoop: when it returns, it returns Terminated; the only other way
\* it ends is the pc-underflow panic of execute.
C2_OneFixTerminatedOrPanic ==
    (initial_budget = 1 /\ SearchEnded /\ Cardinality(Fixes(instructions)) = 1)
      => \/ phase = "done" /\ result.kind = "Terminated"
         \/ phase = "aborted" /\ panic = "pc_underflow"
              /\ last_exec.instruction.op = "Jump"
              /\ last_exec.before.pc + last_exec.instruction.arg <= 0

C2_Witness ==
    /\ initial_budget = 1
    /\ phase = "done"
    /\ Cardinality(Fixes(instructions)) = 1
    /\ PlainOutcome(instructions) = "InfiniteLoop"
    /\ result.kind = "Terminated"

\* C3 (as stated): a looping program that no single swap makes terminate
\* makes run_program with budget 1 return InfiniteLoop, without failing.
C3_NoFixAlwaysInfiniteLoop ==
    (initial_budget = 1 /\ SearchEnded
       /\ PlainOutcome(instructions) = "InfiniteLoop" /\ Fixes(instructions) = {})
      => (phase = "done" /\ result = InfiniteLoop)

\* C3 (amended): for such a program run_program with budget 1 never returns
\* Terminated: when it returns, it returns the value InfiniteLoop; the only
\* other way it ends is the pc-underflow panic of execute.
C3_NoFixInfiniteLoopOrPanic ==
    (initial_budget = 1 /\ SearchEnded
       /\ PlainOutcome(instructions) = "InfiniteLoop" /\ Fixes(instructions) = {})
      => \/ phase = "done" /\ result = InfiniteLoop
         \/ phase = "aborted" /\ panic = "pc_underflow"
              /\ last_exec.instruction.op = "Jump"
              /\ last_exec.before.pc + last_exec.instruction.arg <= 0

C3_Witness ==
    /\ initial_budget = 1
    /\ phase = "done"
    /\ PlainOutcome(instructions) = "InfiniteLoop"
    /\ Fixes(instructions) = {}
    /\ \E i \in 1..Len(instructions) : instructions[i].op # "Accumulate"
    /\ result = InfiniteLoop

\* C4: on the example program the baseline driver offers pcs 0,1,2,6,7,3,4,1
\* to the visited set in that order and stops at the second pc = 1 with
\* accumulator 5.
C4_ExampleBaseline ==
    instructions = ExampleProgram =>
      /\ IsPrefix(baseline_trace, <<0, 1, 2, 6, 7, 3, 4, 1>>)
      /\ phase # "baseline" =>
           /\ baseline_trace = <<0, 1, 2, 6, 7, 3, 4, 1>>
           /\ report = [kind |-> "InfiniteLoop", pc |-> 1, accumulator |-> 5]
           /\ e = [accumulator |-> 5, pc |-> 1]

C4_Witness ==
    /\ instructions = ExampleProgram
    /\ report.kind = "InfiniteLoop"
    /\ Len(baseline_trace) = 8

\* C5: the baseline driver stops at the first pc that is already in the
\* visited set, before executing it: the executed pcs never repeat, and the
\* reported pc and accumulator are those of the emulator that has executed
\* exactly these pcs.
BaselineExecuted ==
    IF report = NoValue THEN baseline_trace
    ELSE SubSeq(baseline_trace, 1, Len(baseline_trace) - 1)

C5_StopsBeforeRepeat ==
    /\ NoRepeat(BaselineExecuted)
    /\ report # NoValue =>
         /\ report.kind = "InfiniteLoop"
         /\ report.pc = baseline_trace[Len(baseline_trace)]
         /\ report.pc \in Range(BaselineExecuted)
         /\ LET arrived == Replay(instructions, EmulatorNew, BaselineExecuted) IN
              /\ report.pc = arrived.pc
              /\ report.accumulator = arrived.accumulator
         /\ seen = Range(BaselineExecuted)

C5_Witness ==
    /\ report.kind = "InfiniteLoop"
    /\ Len(BaselineExecuted) >= 3
    /\ report.accumulator # 0

\* C6: when the baseline pc goes past the last instruction, the baseline
\* driver ends the run reporting Terminated with the final emulator state,
\* without fetching an instruction and without failing.
C6_BaselineReportsTerminated ==
    (phase # "baseline" /\ ~InBounds(instructions, e.pc))
      => /\ panic = "none"
         /\ report = [kind |-> "Terminated", pc |-> e.pc,
                      accumulator |-> e.accumulator]

\* C7: Jump(offset) executed at pc with pc + offset >= 0 sets the pc to
\* pc + offset, keeps the accumulator and does not fail.
C7_JumpInRange ==
    (last_exec.kind = "call" /\ last_exec.instruction.op = "Jump"
       /\ last_exec.before.pc + last_exec.instruction.arg >= 0)
      => /\ last_exec.panic = "none"
         /\ last_exec.after.pc = last_exec.before.pc + last_exec.instruction.arg
         /\ last_exec.after.accumulator = last_exec.before.accumulator

\* C8: Jump(offset) executed at pc with pc + offset < 0 aborts the run with
\* a panic: no InfiniteLoop or Terminated is reported or returned, and the
\* pc is neither clamped nor wrapped; so it is for a first instruction in
\* the baseline run.
C8_UnderflowAborts ==
    (last_exec.kind = "call" /\ last_exec.instruction.op = "Jump"
       /\ last_exec.before.pc + last_exec.instruction.arg < 0)
      => /\ last_exec.panic = "pc_underflow"
         /\ last_exec.after = last_exec.before
         /\ panic = "pc_underflow"
         /\ phase = "aborted"
         /\ result = NoValue
         /\ ret = NoValue
         /\ last_exec.by = "baseline" => (report = NoValue /\ e = last_exec.before)

C8_Witness ==
    /\ last_exec.kind = "call"
    /\ last_exec.by = "baseline"
    /\ last_exec.before = EmulatorNew
    /\ last_exec.instruction.op = "Jump"
    /\ last_exec.instruction.arg < 0
    /\ phase = "aborted"

\* C9: Accumulate(delta) adds exactly delta to the accumulator and advances
\* the pc by exactly 1.
C9_Accumulate ==
    (last_exec.kind = "call" /\ last_exec.instruction.op = "Accumulate")
      => /\ last_exec.panic = "none"
         /\ last_exec.after.accumulator
              = last_exec.before.accumulator + last_exec.instruction.arg
         /\ last_exec.after.pc = last_exec.before.pc + 1
         /\ e = last_exec.after

C9_Witness ==
    /\ last_exec.kind = "call"
    /\ last_exec.instruction.op = "Accumulate"
    /\ last_exec.instruction.arg < 0
    /\ last_exec.before.accumulator > 0
    /\ last_exec.before.pc > 0

\* C10: NoOp(v) advances the pc by exactly 1 and keeps the accumulator; only
\* Accumulate changes the accumulator, NoOp and Jump never do.
C10_NoOpFrame ==
    last_exec.kind = "call" =>
      /\ last_exec.instruction.op = "NoOperation" =>
           /\ last_exec.panic = "none"
           /\ last_exec.after.pc = last_exec.before.pc + 1
      /\ last_exec.instruction.op # "Accumulate" =>
           last_exec.after.accumulator = last_exec.before.accumulator

C10_Witness ==
    /\ last_exec.kind = "call"
    /\ last_exec.instruction.op = "NoOperation"
    /\ last_exec.instruction.arg # 0
    /\ last_exec.before.accumulator # 0

\* the steps of a path that executed a mutated instruction
MutatedSteps(path) ==
    {i \in DOMAIN path : path[i].instruction # Get(instructions, path[i].pc)}

\* C11: the top-level search has budget exactly 1 and keeps it; a
\* speculative invocation has its parent's budget minus one; on every path
\* budget plus executed mutations is 1, so at most one executed instruction
\* is a mutated one, none is taken at budget 0 and no budget is negative.
C11_BudgetDiscipline ==
    /\ (phase = "search" /\ stack # << >>) =>
         stack[1].instructions_that_can_change = 1
    /\ \A i \in DOMAIN stack :
         /\ stack[i].instructions_that_can_change >= 0
         /\ stack[i].instructions_that_can_change
              = 1 - Cardinality(MutatedSteps(stack[i].path))
         /\ i > 1 =>
              /\ stack[i - 1].at = "call"
              /\ stack[i].instructions_that_can_change
                   = stack[i - 1].instructions_that_can_change - 1
    /\ Cardinality(MutatedSteps(terminated_path)) <= 1
    /\ (last_exec.kind = "call" /\ last_exec.by = "search"
          /\ panic = "none" /\ stack # << >>) =>
         last_exec.instruction = Get(instructions, last_exec.before.pc)

C11_Witness ==
    /\ phase = "search"
    /\ stack # << >>
    /\ Top.instructions_that_can_change = 0
    /\ \E k \in DOMAIN Top.path :
         /\ MutatedSteps(Top.path) = {k}
         /\ 1 < k
         /\ k < Len(Top.path)

\* the sum of the deltas of the Accumulate instructions of a path
RECURSIVE SumDeltas(_)
SumDeltas(path) ==
    IF path = << >> THEN 0
    ELSE (IF Head(path).instruction.op = "Accumulate"
            THEN Head(path).instruction.arg ELSE 0) + SumDeltas(Tail(path))

\* path is an execution from a fresh emulator to em in which every step
\* executes the instruction at its pc or that instruction's mutation partner
RECURSIVE PathLeadsTo(_, _, _)
PathLeadsTo(path, from, em) ==
    IF path = << >> THEN from = em
    ELSE /\ Head(path).pc = from.pc
         /\ InBounds(instructions, from.pc)
         /\ Head(path).instruction \in {Get(instructions, from.pc),
                                        Partner(Get(instructions, from.pc))}
         /\ PathLeadsTo(Tail(path),
                        execute(from, Head(path).instruction).emulator, em)

\* C17: Terminated(e) is returned only with e.pc past the end of the
\* program, and e is the emulator of the path that got there: its
\* accumulator is the sum of the deltas of the Accumulate instructions
\* executed along that path from pc = 0.
C17_TerminatedPastEnd ==
    \A v \in {ret, result} :
      v.kind = "Terminated" =>
        /\ v.emulator.pc >= Len(instructions)
        /\ PathLeadsTo(terminated_path, EmulatorNew, v.emulator)
        /\ v.emulator.accumulator = SumDeltas(terminated_path)

C17_Witness ==
    /\ phase = "done"
    /\ result.kind = "Terminated"
    /\ result.emulator.accumulator # 0
    /\ MutatedSteps(terminated_path) # {}
    /\ Len(terminated_path) >= 3

----------------------------------------------------------------------------
\* the steps of `path` at which a NoOperation or a Jump was executed, in order
RECURSIVE MutableSteps(_)
MutableSteps(path) ==
    IF path = << >> THEN << >>
    ELSE LET rest == MutableSteps(SubSeq(path, 1, Len(path) - 1))
             last == path[Len(path)]
         IN  IF Get(instructions, last.pc).op \in {"NoOperation", "Jump"}
               THEN Append(rest, last.pc)
               ELSE rest

\* C19: when the search with budget 1 returns Terminated through a mutation
\* at position p, then p is a position whose swap makes the program
\* terminate, every NoOperation or Jump position that the unmutated path
\* reaches before p is not such a position, and the speculative invocations
\* started by the top-level invocation are exactly those positions and then
\* p, in path order, each of the earlier ones having returned InfiniteLoop
\* and the one at p Terminated.  p need not be the lowest such index.
C19_FirstFixInPathOrder ==
    (/\ phase = "done"
     /\ initial_budget = 1
     /\ result.kind = "Terminated"
     /\ MutatedSteps(terminated_path) # {})
    => \E k \in DOMAIN terminated_path :
         LET p == terminated_path[k].pc
             before == MutableSteps(SubSeq(terminated_path, 1, k - 1))
         IN  /\ MutatedSteps(terminated_path) = {k}
             /\ p \in Fixes(instructions)
             /\ \A i \in DOMAIN before : before[i] \notin Fixes(instructions)
             /\ Len(tried) = Len(before) + 1
             /\ \A i \in DOMAIN before :
                   tried[i] = Attempt(before[i], 1, "InfiniteLoop")
             /\ tried[Len(tried)] = Attempt(p, 1, "Terminated")

\* a looping program repaired at a position although a lower-indexed one,
\* which the unmutated path reaches later, also repairs it, and after an
\* earlier position was tried in vain
C19_Witness ==
    /\ phase = "done"
    /\ initial_budget = 1
    /\ result.kind = "Terminated"
    /\ PlainOutcome(instructions) = "InfiniteLoop"
    /\ Len(tried) >= 2
    /\ tried[1].outcome = "InfiniteLoop"
    /\ tried[Len(tried)].outcome = "Terminated"
    /\ \E q \in Fixes(instructions) :
          /\ q < tried[Len(tried)].pc
          /\ q \in Range(PlainPath(instructions, EmulatorNew, {}))

----------------------------------------------------------------------------
\* the NoOperation and Jump positions that plain execution reaches, in order
PlainMutable(prog) ==
    SelectSeq(PlainPath(prog, EmulatorNew, {}),
              LAMBDA pc : Get(prog, pc).op \in {"NoOperation", "Jump"})

\* the step an invocation takes when its speculative invocation has returned
\* InfiniteLoop: the original instruction on the invocation's own emulator
ResumesWithOriginal ==
    (AtCall /\ ret.kind = "InfiniteLoop") =>
        LET frame == Top
            original == Get(instructions, frame.emulator.pc)
            r == execute(frame.emulator, original)
        IN  /\ last_exec' = ExecRecord("search", frame.emulator, original, r)
            /\ r.panic # "none" => phase' = "aborted" /\ panic' = r.panic
            /\ r.panic = "none" =>
                 /\ phase' = "search"
                 /\ ret' = NoValue
                 /\ Len(stack') = Len(stack)
                 /\ SubSeq(stack', 1, Len(stack) - 1) = Pop
                 /\ LET after == stack'[Len(stack)]
                    IN  /\ after.emulator = r.emulator
                        /\ after.instructions_that_can_change =
                               frame.instructions_that_can_change
                        /\ after.instructions_hit = frame.instructions_hit
                        /\ after.at = "loop"

\* C20: when a speculative invocation returns InfiniteLoop, the invocation
\* that started it executes the original instruction on its own emulator and
\* goes on with the same budget (unless that execute panics); hence a search
\* with budget 1 that returns InfiniteLoop has tried every NoOperation and
\* Jump position of the unmutated path, in order, each returning InfiniteLoop.
C20_FailedBranchKeepsBudget ==
    /\ [][ResumesWithOriginal]_vars
    /\ []((/\ phase = "done"
           /\ initial_budget = 1
           /\ result.kind = "InfiniteLoop")
          => tried = [i \in DOMAIN PlainMutable(instructions) |->
                        Attempt(PlainMutable(instructions)[i], 1, "InfiniteLoop")])

\* a search that resumed after a failed branch, tried a later position with
\* the budget it still had, and found every position to fail
C20_Witness ==
    /\ phase = "done"
    /\ initial_budget = 1
    /\ result.kind = "InfiniteLoop"
    /\ Len(tried) >= 2
    /\ tried[1].pc # tried[2].pc

----------------------------------------------------------------------------
\* C12: a second baseline run of the same program goes through the same
\* sequence of (pc, accumulator) states as the first one, and when it has
\* stopped it has stopped in the same way, with the same emulator state and
\* the same report: nothing of the first run or of its search is carried over.
C12_BaselineRepeats ==
    first_run # NoValue =>
        /\ IsPrefix(baseline_states, first_run.states)
        /\ phase # "baseline" =>
             /\ baseline_states = first_run.states
             /\ e = first_run.e
             /\ report = first_run.report
        /\ phase \in {"done", "aborted"} => panic = first_run.panic

\* a second run that has detected the loop, after a first run whose search
\* executed instructions and mutations of them
C12_Witness ==
    /\ first_run # NoValue
    /\ first_run.report.kind = "InfiniteLoop"
    /\ phase = "search"
    /\ report.kind = "InfiniteLoop"
    /\ Len(baseline_states) >= 3
    /\ \E i \in DOMAIN baseline_states : baseline_states[i].accumulator # 0

----------------------------------------------------------------------------
(* What a line denotes, stated apart from the decoder: its first word, and  *)
(* the integer written by a text of an optional sign and decimal digits     *)

FirstWord(s) ==
    LET n == CHOOSE n \in 0..Len(s) :
                 /\ \A i \in 1..n : s[i] \notin Whitespace
                 /\ n < Len(s) => s[n + 1] \in Whitespace
    IN  SubSeq(s, 1, n)

Unsigned(t) == IF t # << >> /\ Head(t) \in {"+", "-"} THEN Tail(t) ELSE t

IsIntegerText(t) ==
    /\ Unsigned(t) # << >>
    /\ \A i \in DOMAIN Unsigned(t) : IsDigit(Unsigned(t)[i])

RECURSIVE Magnitude(_)
Magnitude(digits) ==
    IF digits = << >> THEN 0
    ELSE 10 * Magnitude(SubSeq(digits, 1, Len(digits) - 1))
         + to_digit(digits[Len(digits)])

IntegerOf(t) ==
    IF Head(t) = "-" THEN 0 - Magnitude(Unsigned(t)) ELSE Magnitude(Unsigned(t))

Mnemonic == [NoOperation |-> nop, Accumulate |-> acc, Jump |-> jmp]

\* C13: a line "<mnemonic> <signed integer>" with mnemonic nop, acc or jmp
\* decodes to NoOperation, Accumulate or Jump carrying that integer (as the
\* four lines of the test do), and the result is an error when the first
\* word is not exactly one of the three mnemonics, when the line is a
\* mnemonic and nothing else, or when what follows the separator is not the
\* text of an integer of the machine's range.
C13_FromStr ==
    phase = "parsed" =>
        LET s == input[1]
            r == loaded[1]
            word == FirstWord(s)
            rest == SubSeq(s, Len(word) + 2, Len(s))
        IN  /\ \A op \in DOMAIN Mnemonic :
                  (/\ word = Mnemonic[op]
                   /\ Len(s) > Len(word)
                   /\ IsIntegerText(rest)
                   /\ InI64(IntegerOf(rest)))
                  => r = DecodeOk([op |-> op, arg |-> IntegerOf(rest)])
            /\ (\A op \in DOMAIN Mnemonic : word # Mnemonic[op]) => ~r.ok
            /\ (\E op \in DOMAIN Mnemonic : s = Mnemonic[op]) => ~r.ok
            /\ (Len(s) > Len(word) /\ ~IsIntegerText(rest)) => ~r.ok
            /\ (/\ Len(s) > Len(word)
                /\ IsIntegerText(rest)
                /\ ~InI64(IntegerOf(rest))) => ~r.ok
            /\ s = nop \o <<" ", "+", "0">> => r = DecodeOk(NoOperation(0))
            /\ s = acc \o <<" ", "+", "1">> => r = DecodeOk(Accumulate(1))
            /\ s = acc \o <<" ", "-", "9", "9">> => r = DecodeOk(Accumulate(-99))
            /\ s = jmp \o <<" ", "-", "4">> => r = DecodeOk(Jump(-4))
            /\ s = <<"b", "o", "g", "u", "s", " ", "+", "1">> => ~r.ok

\* the decoder returned an instruction with a negative argument
C13_Witness ==
    /\ phase = "parsed"
    /\ input[1] = acc \o <<" ", "-", "9", "9">>
    /\ loaded = << DecodeOk(Accumulate(-99)) >>

----------------------------------------------------------------------------
\* C14: when some line of the input does not decode, no program is ever
\* produced and neither the baseline driver nor the search executes an
\* instruction or reports anything: the process is still loading, or it has
\* aborted in the load, however many lines before the bad one had decoded.
C14_LoadIsAtomic ==
    (\E i \in DOMAIN input : ~from_str(input[i]).ok) =>
        /\ phase \in {"load", "aborted"}
        /\ phase = "aborted" => panic = "unwrap_on_err"
        /\ instructions = << >>
        /\ last_exec = NoValue
        /\ baseline_trace = << >>
        /\ e = EmulatorNew
        /\ seen = {}
        /\ stack = << >>
        /\ tried = << >>
        /\ report = NoValue
        /\ result = NoValue

\* a load that aborted at a bad line after two lines had decoded
C14_Witness ==
    /\ phase = "aborted"
    /\ Len(loaded) = 3
    /\ loaded[1].ok
    /\ loaded[2].ok
    /\ ~loaded[3].ok

----------------------------------------------------------------------------
\* the selections of k of the indexes 0..n-1, as strictly increasing tuples
Selections(n, k) ==
    {t \in [1..k -> 0..(n - 1)] : \A i \in 1..(k - 1) : t[i] < t[i + 1]}

\* lexicographic order of two tuples of the same length
LexLess(a, b) ==
    \E i \in DOMAIN a : /\ a[i] < b[i]
                        /\ \A j \in 1..(i - 1) : a[j] = b[j]

\* C15: the iterator over n elements with k >= 1 indexes yields selections
\* of k strictly increasing indexes, the first one the least in
\* lexicographic order and each next one the immediate successor of the one
\* before; it returns None only after the greatest one (at once when k > n,
\* where there is none), and keeps returning None afterwards.  So every
\* selection is yielded exactly once, in lexicographic order.  (Stated of
\* the latest call of next in every state, hence of every call.)
C15_PermutationsInOrder ==
    phase = "iterate" =>
        LET all == Selections(Len(permutations.elements),
                              Len(permutations.indexes))
            i == Len(collected)
        IN  collected # << >> =>
              IF collected[i].some
                THEN /\ collected[i].value \in all
                     /\ IF i = 1
                          THEN \A t \in all : ~LexLess(t, collected[i].value)
                          ELSE /\ collected[i - 1].some
                               /\ LexLess(collected[i - 1].value,
                                          collected[i].value)
                               /\ \A t \in all :
                                     ~(/\ LexLess(collected[i - 1].value, t)
                                       /\ LexLess(t, collected[i].value))
                ELSE IF i = 1 THEN all = {}
                ELSE collected[i - 1].some =>
                        \A t \in all : ~LexLess(collected[i - 1].value, t)

\* the iterator over four elements with three indexes has yielded the four
\* selections and returned None
C15_Witness ==
    /\ phase = "iterate"
    /\ Len(permutations.elements) = 4
    /\ Len(collected) = 5
    /\ collected[1] = Some(<<0, 1, 2>>)
    /\ collected[2] = Some(<<0, 1, 3>>)
    /\ collected[3] = Some(<<0, 2, 3>>)
    /\ collected[4] = Some(<<1, 2, 3>>)
    /\ collected[5] = None

----------------------------------------------------------------------------
\* the values at some to_sum distinct positions of `in` sum to n
SomeSelectionSums(n, to_sum, in) ==
    \E t \in Selections(Len(in), to_sum) : SumOf(Deref(in, t)) = n

\* `values` is made of elements at distinct positions of `in`
TakenFrom(values, in) ==
    \E f \in [DOMAIN values -> DOMAIN in] :
        /\ \A i, j \in DOMAIN values : i # j => f[i] # f[j]
        /\ \A i \in DOMAIN values : values[i] = in[f[i]]

\* C16: get_sum_tree returns Some exactly when get_sum_to does, which is
\* exactly when some to_sum elements at distinct positions of the input sum
\* to n, and the list it returns has exactly to_sum elements of the input
\* and sums to n.
C16_TreeAgreesWithSumTo ==
    phase = "summed" =>
        /\ sum_ret.get_sum_to.some
             <=> SomeSelectionSums(sum_call.n, sum_call.to_sum, sum_call.input)
        /\ sum_ret.get_sum_tree.some <=> sum_ret.get_sum_to.some
        /\ sum_ret.get_sum_tree.some =>
             /\ Len(sum_ret.get_sum_tree.value) = sum_call.to_sum
             /\ SumOf(sum_ret.get_sum_tree.value) = sum_call.n
             /\ TakenFrom(sum_ret.get_sum_tree.value, sum_call.input)

----------------------------------------------------------------------------
\* what a step does to the invocations that wait for a speculative one
BranchLeavesCallerAlone ==
    /\ instructions' = instructions
    /\ phase' = "search" =>
         /\ \A i \in 1..(Len(stack) - 1) :
               i <= Len(stack') => stack'[i] = stack[i]
         /\ (phase = "search" /\ Len(stack') = Len(stack) + 1) =>
               LET waiting == stack'[Len(stack)] IN
                 /\ waiting.emulator = Top.emulator
                 /\ waiting.instructions_hit =
                        Top.instructions_hit \cup {Top.emulator.pc}
                 /\ waiting.instructions_that_can_change =
                        Top.instructions_that_can_change

\* C21: the invocation that starts a speculative invocation keeps its own
\* emulator and its visited set, with the pc just inserted, and no step of
\* the speculative invocation, its return included, changes them or the
\* program: when InfiniteLoop comes back the caller's pc, accumulator and
\* visited set are what they were when the branch was started.
C21_FailedBranchLeavesNoTrace == [][BranchLeavesCallerAlone]_vars

\* a caller that has just received InfiniteLoop from a branch which executed
\* instructions of its own
C21_Witness ==
    /\ AtCall
    /\ ret.kind = "InfiniteLoop"
    /\ last_exec.by = "search"
    /\ last_exec.before.pc \notin Top.instructions_hit
    /\ Top.emulator.accumulator # last_exec.after.accumulator

----------------------------------------------------------------------------
\* the pcs of the instructions executed on a path
PathPcs(path) == {path[i].pc : i \in DOMAIN path}

\* the visited set of a frame is made of the pcs executed on its own path
\* from pc = 0, and of the pc of the instruction it is speculating on
VisitedIsOwnPath(frame) ==
    frame.instructions_hit =
        PathPcs(frame.path)
          \cup (IF frame.at = "call" THEN {frame.emulator.pc} ELSE {})

\* C22: in every invocation the visited set is exactly the set of pcs
\* executed on the path from pc = 0 to its current point, the mutated
\* position included, so a branch starts with its caller's set; an
\* invocation returns InfiniteLoop in the very step in which its pc is one
\* of those, and never for a pc that only some other branch has visited.
C22_LoopDetectionPerPath ==
    /\ [](\A i \in DOMAIN stack : VisitedIsOwnPath(stack[i]))
    /\ [][/\ (AtLoopHead /\ Top.emulator.pc \in PathPcs(Top.path))
               => (ret' = InfiniteLoop /\ stack' = Pop)
          /\ (ret = NoValue /\ ret' = InfiniteLoop)
               => Top.emulator.pc \in PathPcs(Top.path)]_vars

\* a speculative invocation, after its mutation, has executed a pc that the
\* first branch, which failed, had visited and its own caller had not
C22_Witness ==
    /\ phase = "search"
    /\ Len(stack) = 2
    /\ tried # << >>
    /\ tried[1].outcome = "InfiniteLoop"
    /\ \E j \in DOMAIN Top.path :
          /\ j > Len(stack[1].path) + 1
          /\ Top.path[j].pc \notin PathPcs(stack[1].path)
          /\ Top.path[j].pc \in
                Range(PlainPath(Swap(instructions, tried[1].pc),
                                EmulatorNew, {}))

----------------------------------------------------------------------------
\* C23: try_mutate gives Jump(v) for NoOperation(v), NoOperation(v) for
\* Jump(v) and nothing for Accumulate(d); applied to what it returned, it
\* gives back the instruction it started from.
C23_MutationPartners ==
    /\ phase \in {"mutated", "mutated twice"} =>
         LET self == mutation.self IN
           /\ self.op = "NoOperation" =>
                mutation.once = Some([op |-> "Jump", arg |-> self.arg])
           /\ self.op = "Jump" =>
                mutation.once = Some([op |-> "NoOperation", arg |-> self.arg])
           /\ self.op = "Accumulate" => mutation.once = None
    /\ phase = "mutated twice" => mutation.twice = Some(mutation.self)

\* a Jump with a negative argument has been mutated twice
C23_Witness ==
    /\ phase = "mutated twice"
    /\ mutation.self.op = "Jump"
    /\ mutation.self.arg < 0
    /\ mutation.once.value.op = "NoOperation"

----------------------------------------------------------------------------
\* the pcs of a path, in the order of execution
PcsOf(path) == [i \in DOMAIN path |-> path[i].pc]

\* the pcs at which the baseline driver has executed an instruction
BaselineExecutedInBounds ==
    SelectSeq(BaselineExecuted, LAMBDA pc : InBounds(instructions, pc))

\* no pc twice, hence no more steps than the program has instructions
BoundedPath(pcs) ==
    /\ NoRepeat(pcs)
    /\ \A i \in DOMAIN pcs : InBounds(instructions, pcs[i])
    /\ Len(pcs) <= Len(instructions)

\* C24: on the baseline run and on the path from pc = 0 of every invocation
\* of the search, top-level or speculative, no instruction index is executed
\* twice; so a path has at most as many steps as the program has
\* instructions, and one that has that many is at its end: its pc is off
\* the end of the program or has been visited.
C24_NoIndexTwice ==
    /\ BoundedPath(BaselineExecutedInBounds)
    /\ BoundedPath(PcsOf(terminated_path))
    /\ \A i \in DOMAIN stack :
          /\ BoundedPath(PcsOf(stack[i].path))
          /\ (stack[i].at = "loop"
                /\ Len(stack[i].path) = Len(instructions))
             => \/ ~InBounds(instructions, stack[i].emulator.pc)
                \/ stack[i].emulator.pc \in stack[i].instructions_hit

\* a speculative path that has executed every instruction of a program of
\* three, one of them mutated, and is back at a visited pc
C24_Witness ==
    /\ AtLoopHead
    /\ Len(stack) = 2
    /\ Len(instructions) = 3
    /\ Len(Top.path) = 3
    /\ MutatedSteps(Top.path) # {}
    /\ Top.emulator.pc \in Top.instructions_hit

----------------------------------------------------------------------------
----------------------------------------------------------------------------
\* the latest execute was of a Jump whose target pc + rel is negative
JumpBelowZero ==
    /\ last_exec # NoValue
    /\ last_exec.instruction.op = "Jump"
    /\ last_exec.before.pc + last_exec.instruction.arg < 0

\* C25: in the search, a Jump whose target is negative, original or made
\* from a NoOperation on a speculative branch, aborts the process with the
\* underflow panic: no invocation is left to return to, nothing is returned
\* or reported, the branch is not recorded as one that failed, and no step
\* follows the abort.
C25_UnderflowAbortsSearch ==
    /\ [](JumpBelowZero =>
            /\ phase = "aborted"
            /\ panic = "pc_underflow"
            /\ stack = << >>
            /\ ret = NoValue
            /\ result = NoValue
            /\ last_exec.by = "speculative" =>
                 tried[Len(tried)].outcome = "panicked")
    /\ [][phase # "aborted"]_vars

\* the search aborted on the Jump made from a NoOperation on a speculative
\* branch, in a program that goes on after it
C25_Witness ==
    /\ JumpBelowZero
    /\ phase = "aborted"
    /\ last_exec.by = "speculative"
    /\ Get(instructions, last_exec.before.pc).op = "NoOperation"
    /\ Len(instructions) > 1
    /\ tried[Len(tried)].outcome = "panicked"

\* the programs that differ from prog in at most one position, where
\* NoOperation(v) and Jump(v) are exchanged
AtMostOneSwap(prog) ==
    {prog} \cup {Swap(prog, i) : i \in 0..(Len(prog) - 1)}

\* C26: when the search with budget 1 returns Terminated(e), some program
\* equal to the original but for at most one NoOp/Jump exchange runs, plainly
\* from pc = 0 and accumulator = 0, past the end without visiting a pc twice
\* and ends with the accumulator of e.
C26_TerminatedHasSingleSwap ==
    (initial_budget = 1 /\ result.kind = "Terminated")
      => \E prog \in AtMostOneSwap(instructions) :
            LET plain == PlainRun(prog, EmulatorNew, {})
            IN  /\ plain.kind = "Terminated"
                /\ plain.emulator.accumulator = result.emulator.accumulator
                /\ NoRepeat(PlainPath(prog, EmulatorNew, {}))

\* a search that returned Terminated with a nonzero accumulator for a program
\* that loops as written, after a speculative invocation had failed
C26_Witness ==
    /\ phase = "done"
    /\ initial_budget = 1
    /\ result.kind = "Terminated"
    /\ result.emulator.accumulator # 0
    /\ PlainOutcome(instructions) = "InfiniteLoop"
    /\ \E i \in DOMAIN tried : tried[i].outcome = "InfiniteLoop"

\* the top-level invocation is on the baseline's way: it has executed only
\* original instructions, at the pcs the plain run executes, in that order,
\* and its emulator is the plain run's after those steps, which is the state
\* the baseline driver offered to seen.insert after as many steps
TopLevelFollowsBaseline ==
    (phase = "search" /\ stack # << >>) =>
        /\ MutatedSteps(stack[1].path) = {}
        /\ IsPrefix(PcsOf(stack[1].path),
                    PlainPath(instructions, EmulatorNew, {}))
        /\ stack[1].emulator
             = Replay(instructions, EmulatorNew, PcsOf(stack[1].path))
        /\ baseline_states # << >> =>
             /\ Len(stack[1].path) < Len(baseline_states)
             /\ stack[1].emulator = baseline_states[Len(stack[1].path) + 1]

\* the top-level invocation returns InfiniteLoop only at the pc where the
\* plain run finds its loop
TopLevelLoopsWhereBaselineDoes ==
    (AtLoopHead /\ Len(stack) = 1 /\ ret' = InfiniteLoop)
      => /\ Top.emulator.pc = PlainRun(instructions, EmulatorNew, {}).emulator.pc
         /\ baseline_states # << >> =>
              /\ Top.emulator = baseline_states[Len(baseline_states)]
              /\ report.pc = Top.emulator.pc

NoBranchSucceeded == \A i \in DOMAIN tried : tried[i].outcome # "Terminated"

\* an invocation with budget 0 starts no speculative invocation
NoBranchAtBudgetZero ==
    /\ initial_budget = 0 => (tried = << >> /\ Len(stack) <= 1)
    /\ \A i \in DOMAIN stack :
          stack[i].instructions_that_can_change = 0 => stack[i].at = "loop"

\* C27 (as stated): for a program whose baseline run loops and any budget,
\* the top-level invocation goes through the states of the baseline driver;
\* if no speculative invocation succeeds it returns InfiniteLoop, at the pc
\* where the baseline finds its loop; with budget 0 no speculative invocation
\* is started.
C27_SearchRefinesBaseline ==
    /\ [](PlainOutcome(instructions) = "InfiniteLoop" =>
            /\ TopLevelFollowsBaseline
            /\ NoBranchAtBudgetZero
            /\ (SearchEnded /\ NoBranchSucceeded)
                 => (phase = "done" /\ result = InfiniteLoop))
    /\ [][PlainOutcome(instructions) = "InfiniteLoop"
            => TopLevelLoopsWhereBaselineDoes]_vars

\* C27 (amended): the same, but a search in which no speculative invocation
\* succeeds returns InfiniteLoop or is aborted by a panic of execute raised
\* inside a speculative invocation.
C27_SearchRefinesBaselineOrPanics ==
    /\ [](PlainOutcome(instructions) = "InfiniteLoop" =>
            /\ TopLevelFollowsBaseline
            /\ NoBranchAtBudgetZero
            /\ (SearchEnded /\ NoBranchSucceeded)
                 => \/ phase = "done" /\ result = InfiniteLoop
                    \/ /\ phase = "aborted"
                       /\ tried # << >>
                       /\ tried[Len(tried)].outcome \in {"panicked", "pending"})
    /\ [][PlainOutcome(instructions) = "InfiniteLoop"
            => TopLevelLoopsWhereBaselineDoes]_vars

\* a search with budget that returned InfiniteLoop after the top-level
\* invocation had executed several instructions and a speculative invocation
\* had failed
C27_Witness ==
    /\ phase = "done"
    /\ result = InfiniteLoop
    /\ initial_budget > 0
    /\ Len(baseline_states) >= 3
    /\ tried # << >>
    /\ \A i \in DOMAIN tried : tried[i].outcome = "InfiniteLoop"

----------------------------------------------------------------------------
(* Emulator::execute at the ends of the integer ranges, lines 143-158 *)

WideAccumulators == {I64Min, I64Min + 1, -1, 0, 1, I64Max - 1, I64Max}
WidePcs == {0, 1, I64Max, UsizeMax}

WideExecInit ==
    /\ InitCommon
    /\ mutation = NoValue
    /\ permutations = NoValue
    /\ sum_call = NoValue
    /\ input = << >>
    /\ instructions = << >>
    /\ phase = "execute wide"
    /\ e \in [accumulator : WideAccumulators, pc : WidePcs]
    /\ stack = << >>
    /\ initial_budget = 0

WideExecuteCall ==
    /\ phase = "execute wide"
    /\ \E instruction \in AnyInstruction :
         LET r == execute(e, instruction) IN
           /\ e' = r.emulator
           /\ last_exec' = ExecRecord("direct", e, instruction, r)
           /\ IF r.panic # "none"
                THEN Abort(r.panic)
                ELSE /\ phase' = "executed"
                     /\ UNCHANGED <<stack, ret, panic>>
    /\ UNCHANGED <<instructions, overflow_checks, seen, result, report,
                   baseline_trace, initial_budget, last_insert, cipher,
                   mutation, sum_ret, sum_call, collected, permutations,
                   loaded, input, first_run, baseline_states, tried,
                   terminated_path>>

WideExecNext == WideExecuteCall

WideExecSpec == WideExecInit /\ [][WideExecNext]_vars

\* C29: the arithmetic of execute never wraps silently: a Jump whose
\* mathematical target pc + rel is negative does not complete with a program
\* counter, and after a completed Accumulate the accumulator is the
\* mathematical sum of the old accumulator and the value.
C29_NoSilentWrap ==
    (last_exec.kind = "call" /\ last_exec.panic = "none") =>
        /\ last_exec.instruction.op = "Jump" =>
             last_exec.before.pc + last_exec.instruction.arg >= 0
        /\ last_exec.instruction.op = "Accumulate" =>
             last_exec.after.accumulator
               = last_exec.before.accumulator + last_exec.instruction.arg

----------------------------------------------------------------------------
(* day-9: CipherWindow (lines 43-90) driven by find_invalid_number (12-23) *)

MaxWindow == 2
MaxValue == 3

WindowSizes == 0..MaxWindow
CipherValues == (-1)..MaxValue

\* CipherWindow::new, lines 53-58
CipherWindowNew(window_size) ==
    [window |-> << >>, window_size |-> window_size]

\* lines 64-69: how many times each value occurs in the window
Occurrences(window) ==
    [v \in {window[i] : i \in DOMAIN window} |->
        Cardinality({i \in DOMAIN window : window[i] = v})]

\* lines 72-77: the match on set.get(&supposed_second_value)
is_match(set, value, each_value) ==
    LET supposed_second_value == value - each_value IN
    IF supposed_second_value \in DOMAIN set
      THEN IF value = each_value THEN set[supposed_second_value] > 1
                                 ELSE TRUE
      ELSE FALSE

\* lines 70-82: the loop over the window that sets `found`
found(self, value) ==
    LET set == Occurrences(self.window) IN
    \E i \in DOMAIN self.window : is_match(set, value, self.window[i])

\* CipherWindow::insert, lines 59-90: the window afterwards and the result
CipherInsert(self, value) ==
    IF Len(self.window) < self.window_size
      THEN [self |-> [self EXCEPT !.window = Append(self.window, value)],
            ret |-> "Ok"]
      ELSE IF found(self, value)
             THEN [self |-> [self EXCEPT
                               !.window = Tail(Append(self.window, value))],
                   ret |-> "Ok"]
             ELSE [self |-> self, ret |-> "NotASum"]

InsertRecord(before, value, r) ==
    [kind |-> "call", before |-> before, value |-> value,
     after |-> r.self, ret |-> r.ret]

CipherInit ==
    /\ InitCommon
    /\ mutation = NoValue
    /\ permutations = NoValue
    /\ sum_call = NoValue
    /\ input = << >>
    /\ instructions = << >>
    /\ phase = "find invalid"
    /\ e = EmulatorNew
    /\ stack = << >>
    /\ initial_budget = 0

\* line 13: let mut window = CipherWindow::new(window_size)
FindInvalidNew ==
    /\ phase = "find invalid"
    /\ cipher = NoValue
    /\ \E window_size \in WindowSizes : cipher' = CipherWindowNew(window_size)
    /\ UNCHANGED <<instructions, overflow_checks, phase, e, seen, stack, ret,
                   result, panic, report, baseline_trace, last_exec,
                   initial_budget, terminated_path, tried, baseline_states,
                   first_run, input, loaded, permutations, collected,
                   sum_call, sum_ret, mutation, last_insert>>

\* lines 14-20: the next value of the input is inserted; the first value
\* that is refused is returned
FindInvalidInsert ==
    /\ phase = "find invalid"
    /\ cipher # NoValue
    /\ \E value \in CipherValues :
         LET r == CipherInsert(cipher, value) IN
           /\ cipher' = r.self
           /\ last_insert' = InsertRecord(cipher, value, r)
           /\ phase' = IF r.ret = "Ok" THEN phase ELSE "invalid found"
    /\ UNCHANGED <<instructions, overflow_checks, e, seen, stack, ret,
                   result, panic, report, baseline_trace, last_exec,
                   initial_budget, terminated_path, tried, baseline_states,
                   first_run, input, loaded, permutations, collected,
                   sum_call, sum_ret, mutation>>

\* line 22: the input is exhausted
FindInvalidExhausted ==
    /\ phase = "find invalid"
    /\ cipher # NoValue
    /\ phase' = "all valid"
    /\ UNCHANGED <<instructions, overflow_checks, e, seen, stack, ret,
                   result, panic, report, baseline_trace, last_exec,
                   initial_budget, terminated_path, tried, baseline_states,
                   first_run, input, loaded, permutations, collected,
                   sum_call, sum_ret, mutation, cipher, last_insert>>

CipherNext == FindInvalidNew \/ FindInvalidInsert \/ FindInvalidExhausted

CipherSpec == CipherInit /\ [][CipherNext]_vars

\* value is the sum of two entries of the window at different positions
SumOfTwoEntries(window, value) ==
    \E i, j \in DOMAIN window : i # j /\ window[i] + window[j] = value

\* C30: on a window that holds window_size values, insert(value) returns Ok
\* exactly when value is the sum of two entries at different positions; on
\* Ok the oldest entry is dropped and value appended, the length staying
\* window_size; on Err(NotASum) the window is unchanged.
C30_InsertAcceptsSumsOfTwo ==
    (last_insert.kind = "call"
       /\ Len(last_insert.before.window) = last_insert.before.window_size)
      => /\ last_insert.ret = "Ok"
              <=> SumOfTwoEntries(last_insert.before.window, last_insert.value)
         /\ last_insert.ret = "Ok" =>
              /\ last_insert.after.window
                   = Tail(last_insert.before.window) \o << last_insert.value >>
              /\ Len(last_insert.after.window) = last_insert.before.window_size
         /\ last_insert.ret = "NotASum" =>
              last_insert.after = last_insert.before
         /\ cipher = last_insert.after

========================================================================
